---- MODULE Spec2Model ----
(***************************************************************************)
(* pyjadxd: the typed client of the jadxd decompiler service.              *)
(*                                                                         *)
(* The client (client.py, errors.py, models.py) is modelled from its code. *)
(* The jadxd service itself is not part of the Python sources; its session *)
(* table and rename tables are modelled from the protocol description and  *)
(* the definitions that do so are named Server*.                           *)
(***************************************************************************)
EXTENDS Integers, FiniteSets, Sequences, TLC

\* ------------------------------------------------------------------ bounds

\* The service issues the session ids 1..MaxSessions, in order.
MaxSessions == 2

\* The empty string given as a session id.
EmptySession == 0
\* An id the service never issues.
UnknownSession == MaxSessions + 1
SessionIds == 1..MaxSessions
SessionArgs == {EmptySession} \cup SessionIds \cup {UnknownSession}

\* Entity ids a caller passes: the empty string, an id of the loaded
\* artifact, an id the artifact does not hold.
EntityArgs == {"", "e1", "zz"}
\* Ids of the rename shim and the aliases given to them.
RenameIds == {"i1", "i2"}
RenameArgs == {""} \cup RenameIds
Aliases == {"a1", "a2"}
NoAlias == "-"

Absent == "<absent>"

\* ------------------------------------------------------------- errors.py

\* The classes an operation can raise, "ok" standing for a normal return.
\* JadxdError and its three subclasses are the client's own; the others are
\* the exceptions of the libraries the client calls and does not catch.
Taxonomy == {"JadxdConnectionError", "JadxdSessionError", "JadxdNotFoundError", "JadxdError"}

JadxdError(error_code, message, details) ==
    [kind |-> "JadxdError", error_code |-> error_code, message |-> message,
     details |-> IF details \in {Absent, "null"} THEN "{}" ELSE details,
     value |-> "none"]

JadxdNotFoundError(error_code, message, details) ==
    [JadxdError(error_code, message, details) EXCEPT !.kind = "JadxdNotFoundError"]

JadxdSessionError(error_code, message, details) ==
    [JadxdError(error_code, message, details) EXCEPT !.kind = "JadxdSessionError"]

JadxdConnectionError(message) ==
    [JadxdError("CONNECTION_ERROR", message, Absent) EXCEPT !.kind = "JadxdConnectionError"]

\* An exception of httpx, pydantic or the interpreter, which carries no
\* error_code, message or details of the service.
Foreign(kind) ==
    [kind |-> kind, error_code |-> Absent, message |-> Absent, details |-> Absent,
     value |-> "none"]

\* A normal return: of the decoded JSON as it came ("raw") or of a validated
\* instance of an entity model ("validated").
Returned(value) ==
    [kind |-> "ok", error_code |-> Absent, message |-> Absent, details |-> Absent,
     value |-> value]

\* ------------------------------------------------------------- client.py

not_found_codes_without_manifest ==
    {"SESSION_NOT_FOUND", "TYPE_NOT_FOUND", "METHOD_NOT_FOUND", "FIELD_NOT_FOUND",
     "RESOURCE_NOT_FOUND"}

_NOT_FOUND_CODES ==
    {"SESSION_NOT_FOUND", "TYPE_NOT_FOUND", "METHOD_NOT_FOUND", "FIELD_NOT_FOUND",
     "MANIFEST_UNAVAILABLE", "RESOURCE_NOT_FOUND"}

_SESSION_CODES == {"SESSION_NOT_FOUND"}

\* A response: its HTTP status and its JSON body, an object that may hold an
\* "error" object (with error_code, message, details, each possibly absent)
\* and the fields of a result.
is_success(resp) == resp.status \in 200..299

ErrorGet(err, key, default) == IF err[key] = Absent THEN default ELSE err[key]

NoError == [error_code |-> Absent, message |-> Absent, details |-> Absent]

\* data.get("error", {}): an absent "error" reads as the empty object.
BodyError(resp) == IF resp.has_error THEN resp.error ELSE NoError

handle_notfound_first(resp) ==
    IF is_success(resp) THEN Returned("raw")
    ELSE LET err == BodyError(resp)
             code == ErrorGet(err, "error_code", "UNKNOWN")
             msg == ErrorGet(err, "message", "resp.text")
             details == ErrorGet(err, "details", "{}")
         IN  IF code \in _NOT_FOUND_CODES THEN JadxdNotFoundError(code, msg, details)
             ELSE IF code \in _SESSION_CODES THEN JadxdSessionError(code, msg, details)
             ELSE JadxdError(code, msg, details)

_handle(resp) ==
    IF is_success(resp) THEN Returned("raw")
    ELSE LET err == BodyError(resp)
             code == ErrorGet(err, "error_code", "UNKNOWN")
             msg == ErrorGet(err, "message", "resp.text")
             details == ErrorGet(err, "details", "{}")
         IN  IF code \in _SESSION_CODES THEN JadxdSessionError(code, msg, details)
             ELSE IF code \in _NOT_FOUND_CODES THEN JadxdNotFoundError(code, msg, details)
             ELSE JadxdError(code, msg, details)

\* What the transport does with one request: it cannot connect, it times out
\* before or after the service has taken the request, or it brings a response.
TransportOutcomes == {"ConnectError", "ConnectTimeout", "ReadTimeout", "Response"}
\* The outcomes in which the service has processed the request.
Delivered == {"ReadTimeout", "Response"}

TransportException(t) ==
    IF t = "ConnectError" THEN "httpx.ConnectError" ELSE "httpx.TimeoutException"

post_catch_all(t, resp) ==
    IF t # "Response" THEN JadxdConnectionError("cannot reach jadxd")
    ELSE _handle(resp)

\* try: resp = self._http.post(...) / except httpx.ConnectError / _handle(resp)
_post(t, resp) ==
    IF t = "ConnectError" THEN JadxdConnectionError("cannot reach jadxd")
    ELSE IF t # "Response" THEN Foreign(TransportException(t))
    ELSE _handle(resp)

_get(t, resp) ==
    IF t = "ConnectError" THEN JadxdConnectionError("cannot reach jadxd")
    ELSE IF t # "Response" THEN Foreign(TransportException(t))
    ELSE _handle(resp)

\* ------------------------------------------------------------- models.py

\* An entity model: the fields a payload must hold and the fields that have
\* a default.
Provenance == [required |-> {"backend_version", "settings"}, optional |-> {"backend"}]

LoadResult ==
    [required |-> {"session_id", "artifact_hash", "input_type", "class_count", "provenance"},
     optional |-> {"warnings"}]

TypeListResult ==
    [required |-> {"session_id", "types", "provenance"}, optional |-> {"warnings"}]

MethodListResult ==
    [required |-> {"session_id", "type_id", "methods", "provenance"},
     optional |-> {"warnings"}]

MethodDetailResult ==
    [required |-> {"session_id", "type_id", "methods", "provenance"},
     optional |-> {"warnings"}]

FieldListResult ==
    [required |-> {"session_id", "type_id", "fields", "provenance"},
     optional |-> {"warnings"}]

ClassHierarchyResult ==
    [required |-> {"session_id", "type_id", "provenance"},
     optional |-> {"super_class", "interfaces", "inner_classes", "access_flags",
                   "generic_parameters", "generic_super_class", "generic_interfaces",
                   "warnings"}]

ClassDecompileResult ==
    [required |-> {"session_id", "type_id", "provenance"},
     optional |-> {"java", "warnings"}]

DecompiledMethod ==
    [required |-> {"id", "provenance"},
     optional |-> {"kind", "java", "smali", "locations", "warnings"}]

XrefResult ==
    [required |-> {"id", "direction", "refs", "provenance"},
     optional |-> {"kind", "warnings"}]

OverrideResult ==
    [required |-> {"id", "overrides", "provenance"}, optional |-> {"warnings"}]

UnresolvedRefsResult ==
    [required |-> {"id", "refs", "provenance"}, optional |-> {"warnings"}]

StringSearchResult ==
    [required |-> {"session_id", "query", "is_regex", "matches", "total_count",
                   "provenance"},
     optional |-> {"warnings"}]

ManifestResult ==
    [required |-> {"session_id", "text", "provenance"}, optional |-> {"kind", "warnings"}]

ResourceListResult ==
    [required |-> {"session_id", "resources", "provenance"}, optional |-> {"warnings"}]

ResourceContentResult ==
    [required |-> {"session_id", "name", "data_type", "provenance"},
     optional |-> {"text", "warnings"}]

RenameResult == [required |-> {"id", "alias", "status"}, optional |-> {}]

RenameListResult == [required |-> {"session_id", "renames"}, optional |-> {}]

ErrorReportResult ==
    [required |-> {"session_id", "errors_count", "warnings_count", "provenance"},
     optional |-> {}]

AnnotationResult ==
    [required |-> {"id", "kind", "annotations", "provenance"},
     optional |-> {"parameter_annotations", "warnings"}]

DependencyResult ==
    [required |-> {"session_id", "type_id", "dependencies", "total_deps_count",
                   "provenance"},
     optional |-> {"warnings"}]

PackageListResult ==
    [required |-> {"session_id", "packages", "total_packages", "provenance"},
     optional |-> {"warnings"}]

\* The entity models nested in the results that have fields with a default.
MethodDetail ==
    [required |-> {"id", "name", "access_flags", "arguments", "return_type"},
     optional |-> {"is_constructor", "is_class_init", "throws", "generic_arguments",
                   "generic_return_type"}]

AnnotationValue ==
    [required |-> {"type"}, optional |-> {"value", "values", "annotation"}]

AnnotationInfo ==
    [required |-> {"annotation_class", "visibility"}, optional |-> {"values"}]

PackageInfo ==
    [required |-> {"full_name", "class_count"},
     optional |-> {"sub_packages", "class_ids", "is_leaf"}]

\* The entity models that have fields with a default, by class name.
EntityModels ==
    [LoadResult |-> LoadResult, TypeListResult |-> TypeListResult,
     MethodListResult |-> MethodListResult, MethodDetail |-> MethodDetail,
     MethodDetailResult |-> MethodDetailResult, FieldListResult |-> FieldListResult,
     ClassHierarchyResult |-> ClassHierarchyResult,
     ClassDecompileResult |-> ClassDecompileResult,
     DecompiledMethod |-> DecompiledMethod, XrefResult |-> XrefResult,
     OverrideResult |-> OverrideResult, UnresolvedRefsResult |-> UnresolvedRefsResult,
     StringSearchResult |-> StringSearchResult, ManifestResult |-> ManifestResult,
     ResourceListResult |-> ResourceListResult,
     ResourceContentResult |-> ResourceContentResult,
     AnnotationValue |-> AnnotationValue, AnnotationInfo |-> AnnotationInfo,
     AnnotationResult |-> AnnotationResult, DependencyResult |-> DependencyResult,
     PackageInfo |-> PackageInfo, PackageListResult |-> PackageListResult]

\* warnings: list[str] = Field(default_factory=list)
Warnings == [warnings |-> <<"list", "[]">>]

\* The declaration of every field that has a default, by class: the kind of
\* its annotated type ("list", "dict", or "scalar" for str, int and bool) and
\* the value an absent field takes: "[]" and "{}" from default_factory, the
\* literal default otherwise.
FieldDefaults ==
    [LoadResult |-> Warnings, TypeListResult |-> Warnings,
     MethodListResult |-> Warnings,
     MethodDetail |->
        [is_constructor |-> <<"scalar", "False">>,
         is_class_init |-> <<"scalar", "False">>,
         throws |-> <<"list", "[]">>,
         generic_arguments |-> <<"list", "[]">>,
         generic_return_type |-> <<"scalar", "None">>],
     MethodDetailResult |-> Warnings, FieldListResult |-> Warnings,
     ClassHierarchyResult |->
        [super_class |-> <<"scalar", "None">>,
         interfaces |-> <<"list", "[]">>,
         inner_classes |-> <<"list", "[]">>,
         access_flags |-> <<"list", "[]">>,
         generic_parameters |-> <<"list", "[]">>,
         generic_super_class |-> <<"scalar", "None">>,
         generic_interfaces |-> <<"list", "[]">>,
         warnings |-> <<"list", "[]">>],
     ClassDecompileResult |->
        [java |-> <<"scalar", "None">>, warnings |-> <<"list", "[]">>],
     DecompiledMethod |->
        [kind |-> <<"scalar", "decompiled_method">>,
         java |-> <<"scalar", "None">>,
         smali |-> <<"scalar", "None">>,
         locations |-> <<"dict", "{}">>,
         warnings |-> <<"list", "[]">>],
     XrefResult |->
        [kind |-> <<"scalar", "xrefs">>, warnings |-> <<"list", "[]">>],
     OverrideResult |-> Warnings, UnresolvedRefsResult |-> Warnings,
     StringSearchResult |-> Warnings,
     ManifestResult |->
        [kind |-> <<"scalar", "manifest">>, warnings |-> <<"list", "[]">>],
     ResourceListResult |-> Warnings,
     ResourceContentResult |->
        [text |-> <<"scalar", "None">>, warnings |-> <<"list", "[]">>],
     AnnotationValue |->
        [value |-> <<"scalar", "None">>,
         values |-> <<"list", "None">>,
         annotation |-> <<"scalar", "None">>],
     AnnotationInfo |-> [values |-> <<"dict", "{}">>],
     AnnotationResult |->
        [parameter_annotations |-> <<"list", "None">>, warnings |-> <<"list", "[]">>],
     DependencyResult |-> Warnings,
     PackageInfo |->
        [sub_packages |-> <<"list", "[]">>,
         class_ids |-> <<"list", "[]">>,
         is_leaf |-> <<"scalar", "False">>],
     PackageListResult |-> Warnings]

\* A payload holds the names of its top-level fields and, when it has a
\* "provenance" object, the names of that object's fields.
model_construct(model, data) == Returned("validated")

\* BaseModel.model_validate: every required field, the nested provenance's
\* included, or a ValidationError.
model_validate(model, data) ==
    IF /\ model.required \subseteq data.fields
       /\ "provenance" \in model.required => Provenance.required \subseteq data.provenance
    THEN Returned("validated")
    ELSE Foreign("pydantic.ValidationError")

\* The instance model_validate builds of the class `name` from an object
\* that holds the fields `present`: a field the object holds keeps the value
\* given, a field it lacks takes its declared default.
validated_instance(name, present) ==
    LET data == [fields |-> present,
                 provenance |-> Provenance.required \cup Provenance.optional]
        res == model_validate(EntityModels[name], data)
    IN  IF res.kind # "ok" THEN res
        ELSE [kind |-> "ok", value |-> res.value,
              instance |-> [f \in DOMAIN FieldDefaults[name] |->
                               IF f \in present THEN "given"
                               ELSE FieldDefaults[name][f][2]]]

\* ---------------------------------------------------- client.py: requests

\* One request: the verb, the session id in the path (NoSession for /v1/load
\* and /v1/health), the rest of the path and the JSON body, the set of its
\* <<key, value>> pairs.
NoSession == -1

Request(verb, session_id, suffix, body) ==
    [verb |-> verb, session |-> session_id, suffix |-> suffix, body |-> body]

BodyHas(req, key) == \E kv \in req.body : kv[1] = key
BodyGet(req, key) == (CHOOSE kv \in req.body : kv[1] = key)[2]

health == Request("GET", NoSession, "health", {})

\* settings is Absent for None.
load(path, settings) ==
    Request("POST", NoSession, "load",
            {<<"path", path>>} \cup
            (IF settings # Absent THEN {<<"settings", settings>>} ELSE {}))
list_types_posts_close(session_id) == Request("POST", session_id, "close", {})

list_types(session_id) == Request("POST", session_id, "types", {})
list_methods(session_id, type_id) ==
    Request("POST", session_id, "methods", {<<"type_id", type_id>>})
list_methods_detail(session_id, type_id) ==
    Request("POST", session_id, "methods/detail", {<<"type_id", type_id>>})
list_fields(session_id, type_id) ==
    Request("POST", session_id, "fields", {<<"type_id", type_id>>})
decompile_class(session_id, type_id) ==
    Request("POST", session_id, "decompile/class", {<<"type_id", type_id>>})
get_hierarchy(session_id, type_id) ==
    Request("POST", session_id, "hierarchy", {<<"type_id", type_id>>})
decompile_method(session_id, method_id) ==
    Request("POST", session_id, "decompile", {<<"method_id", method_id>>})
xrefs_to(session_id, method_id) ==
    Request("POST", session_id, "xrefs/to", {<<"method_id", method_id>>})
xrefs_from(session_id, method_id) ==
    Request("POST", session_id, "xrefs/from", {<<"method_id", method_id>>})
field_xrefs(session_id, field_id) ==
    Request("POST", session_id, "xrefs/field", {<<"field_id", field_id>>})
class_xrefs(session_id, type_id) ==
    Request("POST", session_id, "xrefs/class", {<<"type_id", type_id>>})
overrides(session_id, method_id) ==
    Request("POST", session_id, "overrides", {<<"method_id", method_id>>})
unresolved_refs(session_id, method_id) ==
    Request("POST", session_id, "unresolved", {<<"method_id", method_id>>})
get_manifest(session_id) == Request("POST", session_id, "manifest", {})
list_resources(session_id) == Request("POST", session_id, "resources", {})
get_resource_content(session_id, name) ==
    Request("POST", session_id, "resources/content", {<<"name", name>>})
error_report(session_id) == Request("POST", session_id, "errors", {})
get_dependencies(session_id, type_id) ==
    Request("POST", session_id, "dependencies", {<<"type_id", type_id>>})
list_packages(session_id) == Request("POST", session_id, "packages", {})
search_strings(session_id, query, regex, limit) ==
    Request("POST", session_id, "strings",
            {<<"query", query>>, <<"regex", regex>>, <<"limit", limit>>})

rename_posts_remove(session_id, id, alias) ==
    Request("POST", session_id, "rename/remove", {<<"id", id>>, <<"alias", alias>>})

rename(session_id, id, alias) ==
    Request("POST", session_id, "rename", {<<"id", id>>, <<"alias", alias>>})

remove_rename(session_id, id) ==
    Request("POST", session_id, "rename/remove", {<<"id", id>>})

list_renames(session_id) == Request("POST", session_id, "renames", {})

\* A keyword left at None adds nothing to the body.
get_annotations(session_id, type_id, method_id, field_id) ==
    Request("POST", session_id, "annotations",
            (IF type_id # Absent THEN {<<"type_id", type_id>>} ELSE {}) \cup
            (IF method_id # Absent THEN {<<"method_id", method_id>>} ELSE {}) \cup
            (IF field_id # Absent THEN {<<"field_id", field_id>>} ELSE {}))

close_session(session_id) == Request("POST", session_id, "close", {})

\* The operations that take a session id and one required entity id, those
\* that take a session id alone, and the rest.
EntityOps ==
    {"list_methods", "list_methods_detail", "list_fields", "decompile_class",
     "get_hierarchy", "decompile_method", "xrefs_to", "xrefs_from",
     "field_xrefs", "class_xrefs", "overrides", "unresolved_refs",
     "get_resource_content", "get_dependencies"}
PlainOps ==
    {"list_types", "get_manifest", "list_resources", "error_report", "list_packages",
     "search_strings", "get_annotations"}
ReadOps == EntityOps \cup PlainOps
RenameOps == {"rename", "remove_rename", "list_renames"}
SessionOps == ReadOps \cup RenameOps \cup {"close_session"}
AllOps == SessionOps \cup {"load", "health"}

\* The request an operation sends. arg is the path of load, the entity id of
\* an EntityOps operation, the query of search_strings, the type_id of
\* get_annotations, the id of rename and remove_rename.
RequestOf(op, session_id, arg, alias) ==
    CASE op = "health" -> health
      [] op = "load" -> load(arg, Absent)
      [] op = "list_types" -> list_types(session_id)
      [] op = "list_methods" -> list_methods(session_id, arg)
      [] op = "list_methods_detail" -> list_methods_detail(session_id, arg)
      [] op = "list_fields" -> list_fields(session_id, arg)
      [] op = "decompile_class" -> decompile_class(session_id, arg)
      [] op = "get_hierarchy" -> get_hierarchy(session_id, arg)
      [] op = "decompile_method" -> decompile_method(session_id, arg)
      [] op = "xrefs_to" -> xrefs_to(session_id, arg)
      [] op = "xrefs_from" -> xrefs_from(session_id, arg)
      [] op = "field_xrefs" -> field_xrefs(session_id, arg)
      [] op = "class_xrefs" -> class_xrefs(session_id, arg)
      [] op = "overrides" -> overrides(session_id, arg)
      [] op = "unresolved_refs" -> unresolved_refs(session_id, arg)
      [] op = "get_manifest" -> get_manifest(session_id)
      [] op = "list_resources" -> list_resources(session_id)
      [] op = "get_resource_content" -> get_resource_content(session_id, arg)
      [] op = "error_report" -> error_report(session_id)
      [] op = "get_dependencies" -> get_dependencies(session_id, arg)
      [] op = "list_packages" -> list_packages(session_id)
      [] op = "search_strings" -> search_strings(session_id, arg, "false", "200")
      [] op = "get_annotations" -> get_annotations(session_id, arg, Absent, Absent)
      [] op = "rename" -> rename(session_id, arg, alias)
      [] op = "remove_rename" -> remove_rename(session_id, arg)
      [] op = "list_renames" -> list_renames(session_id)
      [] op = "close_session" -> close_session(session_id)

\* The model an operation validates its payload against.
ResultModel(op) ==
    CASE op = "load" -> LoadResult
      [] op = "list_types" -> TypeListResult
      [] op = "list_methods" -> MethodListResult
      [] op = "list_methods_detail" -> MethodDetailResult
      [] op = "list_fields" -> FieldListResult
      [] op = "decompile_class" -> ClassDecompileResult
      [] op = "get_hierarchy" -> ClassHierarchyResult
      [] op = "decompile_method" -> DecompiledMethod
      [] op = "xrefs_to" -> XrefResult
      [] op = "xrefs_from" -> XrefResult
      [] op = "field_xrefs" -> XrefResult
      [] op = "class_xrefs" -> XrefResult
      [] op = "overrides" -> OverrideResult
      [] op = "unresolved_refs" -> UnresolvedRefsResult
      [] op = "get_manifest" -> ManifestResult
      [] op = "list_resources" -> ResourceListResult
      [] op = "get_resource_content" -> ResourceContentResult
      [] op = "error_report" -> ErrorReportResult
      [] op = "get_dependencies" -> DependencyResult
      [] op = "list_packages" -> PackageListResult
      [] op = "search_strings" -> StringSearchResult
      [] op = "get_annotations" -> AnnotationResult
      [] op \in {"rename", "remove_rename"} -> RenameResult
      [] op = "list_renames" -> RenameListResult

\* health and close_session return what _get and _post return.
RawOps == {"health", "close_session"}

\* An operation from the transport's outcome on: _post or _get, then
\* model_validate of the data.
Complete(op, t, resp) ==
    LET data == IF op = "health" THEN _get(t, resp) ELSE _post(t, resp)
    IN  IF data.kind # "ok" \/ op \in RawOps THEN data
        ELSE model_validate(ResultModel(op), resp)

\* ------------------------------------------------------------------ state

VARIABLES
    live,        \* service: the ids of the sessions that are loaded
    nextId,      \* service: how many session ids it has issued
    renames,     \* service: per session, the alias of each renamed id
    http,        \* client: self._http, "open" or "closed"
    scope,       \* the caller's with-block: "none", "in" or "exited"
    acquired,    \* how many transports the client has created
    explicit,    \* whether the caller has called close() itself
    closedOk,    \* the session ids for which close_session has returned
    expect,      \* per session and id, what the caller's successful rename
                 \* and remove_rename calls have left: an alias, NoAlias,
                 \* or Unsure once a call on that id has failed
    last,        \* the call the caller has just made and how it ended:
                 \*   op, sid     the operation and the session id given
                 \*   empty       a required identifier was the empty string
                 \*   stale       close_session(sid) had returned before
                 \*   sent        the requests the client issued for it
                 \*   transport   what the transport did with the request
                 \*   kind        "ok" or the class of the exception raised
                 \*   error_code  the error_code the exception carries
                 \*   reply       the response: "none", "full", "lacking" a
                 \*               required field, or an "error" envelope
                 \*   changed     the service's state differs after it
                 \*   value       what was returned: "raw", "validated"
                 \*   listed      the renames list_renames returned
    probe,       \* a response given to the decoding functions alone
    verdict      \* what they made of it

vars == <<live, nextId, renames, http, scope, acquired, explicit, closedOk, expect,
          last, probe, verdict>>
server == <<live, nextId, renames>>
client == <<http, scope, acquired, explicit>>
session == <<live, nextId, renames, http, scope, acquired, explicit, closedOk, expect, last>>

Unsure == "?"
EmptyTable == [i \in RenameIds |-> NoAlias]

\* ------------------------------------------- the service (from the protocol)

ServerChoices == {"ok", "lacking", "fail"}

\* The error code for an id the artifact does not hold, by the body key.
NotFoundCode(key) ==
    CASE key = "type_id" -> "TYPE_NOT_FOUND"
      [] key = "method_id" -> "METHOD_NOT_FOUND"
      [] key = "field_id" -> "FIELD_NOT_FOUND"
      [] key = "name" -> "RESOURCE_NOT_FOUND"

IdKeys == {"type_id", "method_id", "field_id", "name"}

\* The error the service reports for a request, or Absent when it serves it.
ServerError(req, srv) ==
    IF req.suffix = "health" THEN Absent
    ELSE IF req.suffix = "load" THEN (IF srv = "fail" THEN "LOAD_FAILED" ELSE Absent)
    ELSE IF req.session \notin live THEN "SESSION_NOT_FOUND"
    ELSE IF \E k \in IdKeys : BodyHas(req, k) /\ BodyGet(req, k) # "e1"
         THEN NotFoundCode(CHOOSE k \in IdKeys : BodyHas(req, k) /\ BodyGet(req, k) # "e1")
    ELSE IF req.suffix \in {"rename", "rename/remove"} /\ BodyGet(req, "id") \notin RenameIds
         THEN "INVALID_ID"
    ELSE IF srv = "fail"
         THEN (IF req.suffix = "manifest" THEN "MANIFEST_UNAVAILABLE" ELSE "INTERNAL_ERROR")
    ELSE Absent

\* What the service holds after a request it reports as `code` (Absent when
\* it serves the request): load adds a session under the next id, close
\* drops the session and its renames, rename and rename/remove write the
\* session's table, and nothing else writes.
ServerLive(req, code) ==
    IF code # Absent THEN live
    ELSE IF req.suffix = "load" THEN live \cup {nextId + 1}
    ELSE IF req.suffix = "close" THEN live \ {req.session}
    ELSE live

ServerNextId(req, code) ==
    IF code = Absent /\ req.suffix = "load" THEN nextId + 1 ELSE nextId

ServerRenames(req, code) ==
    IF code # Absent THEN renames
    ELSE IF req.suffix = "rename"
         THEN [renames EXCEPT ![req.session][BodyGet(req, "id")] = BodyGet(req, "alias")]
    ELSE IF req.suffix = "rename/remove"
         THEN [renames EXCEPT ![req.session][BodyGet(req, "id")] = NoAlias]
    ELSE IF req.suffix = "close" THEN [renames EXCEPT ![req.session] = EmptyTable]
    ELSE renames

\* The success payload of a request: every field of the model, or, when the
\* service's choice is "lacking", every field but a required one.
ServerFields(model, srv) ==
    LET full == model.required \cup model.optional
    IN  IF srv = "lacking" /\ model.required # {}
        THEN full \ {CHOOSE f \in model.required : TRUE}
        ELSE full

ServerResponse(req, code, srv, model) ==
    IF code = Absent
    THEN [status |-> 200, has_error |-> FALSE, error |-> NoError,
          fields |-> ServerFields(model, srv),
          provenance |-> Provenance.required \cup Provenance.optional,
          renames |-> IF req.suffix = "renames" THEN renames[req.session]
                      ELSE EmptyTable]
    ELSE [status |-> IF code = "INTERNAL_ERROR" THEN 500
                     ELSE IF code \in {"LOAD_FAILED", "INVALID_ID"} THEN 400 ELSE 404,
          has_error |-> TRUE,
          error |-> [error_code |-> code, message |-> "m1", details |-> "{}"],
          fields |-> {}, provenance |-> {}, renames |-> EmptyTable]

\* The service takes one request: its state afterwards and its response.
Server(req, srv, model) ==
    LET code == ServerError(req, srv)
    IN  [live |-> ServerLive(req, code), nextId |-> ServerNextId(req, code),
         renames |-> ServerRenames(req, code),
         response |-> ServerResponse(req, code, srv, model)]

\* What the service replies with for the operations that return the decoded
\* JSON as it is: an object with no field the client looks at.
NoModel == [required |-> {}, optional |-> {}]
ServerModel(op) == IF op \in RawOps THEN NoModel ELSE ResultModel(op)

\* ------------------------------------------------- client.py: the lifecycle

\* self._http.close()
close == "closed"

exit_unless_raised(exc) == IF exc = "None" THEN close ELSE http

\* __exit__(self, *exc): self.close(), whatever the with-block raised.
__exit__(exc) == close

\* The ways a with-block ends: normally, or by an exception of its body.
BlockEnds == {"None", "JadxdError", "KeyboardInterrupt"}

NoCall ==
    [op |-> "none", sid |-> NoSession, empty |-> FALSE, stale |-> FALSE, sent |-> 0,
     transport |-> "unsent", kind |-> "none", error_code |-> Absent, reply |-> "none",
     changed |-> FALSE, value |-> "none", listed |-> EmptyTable]

NoProbe == "none"

InitSession ==
    /\ live = {}
    /\ nextId = 0
    /\ renames = [s \in SessionIds |-> EmptyTable]
    /\ http = "open"
    /\ scope = "none"
    /\ acquired = 1
    /\ explicit = FALSE
    /\ closedOk = {}
    /\ expect = [s \in SessionIds |-> EmptyTable]
    /\ last = NoCall

Init ==
    /\ InitSession
    /\ probe = NoProbe
    /\ verdict = NoProbe

\* with JadxdClient() as client: __enter__ returns self.
Enter ==
    /\ scope = "none"
    /\ scope' = "in"
    /\ UNCHANGED <<server, http, acquired, explicit, closedOk, expect, last, probe, verdict>>

\* The with-block ends, normally or by an exception: __exit__.
Exit(exc) ==
    /\ scope = "in"
    /\ scope' = IF exc = "None" THEN "exited" ELSE "raised"
    /\ http' = __exit__(exc)
    /\ UNCHANGED <<server, acquired, explicit, closedOk, expect, last, probe, verdict>>

\* The caller calls close().
Close ==
    /\ http' = close
    /\ explicit' = TRUE
    /\ UNCHANGED <<server, scope, acquired, closedOk, expect, last, probe, verdict>>

\* ------------------------------------------------------- one operation

\* Whether a required identifier of the call is the empty string.
EmptyIdentifier(op, sid, arg) ==
    \/ op \in SessionOps /\ sid = EmptySession
    \/ op \in EntityOps \cup {"rename", "remove_rename"} /\ arg = ""

\* The caller's expectations after a call: a rename or remove_rename that
\* returned sets the id's, one that raised leaves it Unsure; those of a
\* session the service no longer holds are dropped.
ExpectAfter(op, sid, arg, alias, ok, liveAfter) ==
    LET e == IF op \in {"rename", "remove_rename"} /\ sid \in SessionIds
                /\ arg \in RenameIds
             THEN [expect EXCEPT ![sid][arg] =
                      IF ~ok THEN Unsure ELSE IF op = "rename" THEN alias ELSE NoAlias]
             ELSE expect
    IN  [s \in SessionIds |->
            IF s \in 1..nextId /\ s \notin liveAfter THEN EmptyTable ELSE e[s]]

\* One call of an operation, whole: the request is built and sent once; the
\* transport fails or the service takes the request and answers; the answer
\* is classified and decoded; the call returns or raises. A closed client
\* sends nothing (httpx raises RuntimeError). The client is synchronous: the
\* caller has the outcome of one call (last) before it makes the next.
Invoke(op, sid, arg, alias, t, srv) ==
    LET req == RequestOf(op, sid, arg, alias)
        taken == http = "open" /\ t \in Delivered
        step == Server(req, srv, ServerModel(op))
        resp == step.response
        res == IF http = "closed" THEN Foreign("RuntimeError") ELSE Complete(op, t, resp)
        after == IF taken THEN <<step.live, step.nextId, step.renames>> ELSE server
    IN  /\ last = NoCall
        /\ live' = after[1]
        /\ nextId' = after[2]
        /\ renames' = after[3]
        /\ last' = [op |-> op, sid |-> sid,
                    empty |-> EmptyIdentifier(op, sid, arg),
                    stale |-> sid \in closedOk,
                    sent |-> IF http = "open" THEN 1 ELSE 0,
                    transport |-> IF http = "open" THEN t ELSE "unsent",
                    kind |-> res.kind,
                    error_code |-> res.error_code,
                    reply |-> IF http = "closed" \/ t # "Response" THEN "none"
                              ELSE IF resp.has_error THEN "error"
                              ELSE IF ~(ServerModel(op).required \subseteq resp.fields)
                                   THEN "lacking"
                              ELSE "full",
                    changed |-> after # server,
                    value |-> res.value,
                    listed |-> IF op = "list_renames" /\ res.kind = "ok"
                               THEN resp.renames ELSE EmptyTable]
        /\ closedOk' = IF op = "close_session" /\ res.kind = "ok"
                       THEN closedOk \cup {sid} ELSE closedOk
        /\ expect' = ExpectAfter(op, sid, arg, alias, res.kind = "ok", after[1])
        /\ UNCHANGED <<client, probe, verdict>>

\* The caller takes the outcome of its call and goes on.
Continue ==
    /\ last # NoCall
    /\ last' = NoCall
    /\ UNCHANGED <<server, client, closedOk, expect, probe, verdict>>

Paths == {"app.apk"}

\* How one request can go: the transport's outcome and, when the service
\* takes the request, what the service does with it.
Outcomes ==
    {<<"ConnectError", "ok">>, <<"ConnectTimeout", "ok">>,
     <<"ReadTimeout", "ok">>, <<"ReadTimeout", "fail">>,
     <<"Response", "ok">>, <<"Response", "lacking">>, <<"Response", "fail">>}

Load(path, o) ==
    /\ nextId < MaxSessions
    /\ Invoke("load", NoSession, path, NoAlias, o[1], o[2])

Health(t) == Invoke("health", NoSession, Absent, NoAlias, t, "ok")

Read(op, sid, arg, o) ==
    /\ op \in EntityOps => arg \in EntityArgs
    /\ op \in PlainOps => arg = "e1"
    /\ Invoke(op, sid, arg, NoAlias, o[1], o[2])

Rename(sid, id, alias, o) == Invoke("rename", sid, id, alias, o[1], o[2])

RemoveRename(sid, id, o) == Invoke("remove_rename", sid, id, NoAlias, o[1], o[2])

ListRenames(sid, o) == Invoke("list_renames", sid, Absent, NoAlias, o[1], o[2])

CloseSession(sid, o) == Invoke("close_session", sid, Absent, NoAlias, o[1], o[2])

\* Sessions and every operation on them; one id and one alias of the rename
\* shim.
Idle == last = NoCall

Next ==
    \/ Continue
    \/ Idle /\ \E t \in TransportOutcomes : Health(t)
    \/ Idle /\ \E p \in Paths, o \in Outcomes : Load(p, o)
    \/ Idle /\ \E op \in ReadOps, sid \in SessionArgs, arg \in EntityArgs, o \in Outcomes :
                  Read(op, sid, arg, o)
    \/ Idle /\ \E sid \in SessionArgs, id \in {"", "i1"}, o \in Outcomes :
                  Rename(sid, id, "a1", o)
    \/ Idle /\ \E sid \in SessionArgs, id \in {"", "i1"}, o \in Outcomes :
                  RemoveRename(sid, id, o)
    \/ Idle /\ \E sid \in SessionArgs, o \in Outcomes : ListRenames(sid, o)
    \/ Idle /\ \E sid \in SessionArgs, o \in Outcomes : CloseSession(sid, o)

Spec == Init /\ [][Next]_vars

\* --------------------------------------------- the rename shim alone

\* A request that does not arrive, one that is served and whose response is
\* lost, and the responses.
RenameOutcomes ==
    {<<"ConnectError", "ok">>, <<"ReadTimeout", "ok">>,
     <<"Response", "ok">>, <<"Response", "lacking">>, <<"Response", "fail">>}

\* The rename and remove_rename calls of a caller: one id renamed, renamed
\* again and removed, under every outcome, and a second id beside it.
RenameCalls ==
    {<<"i1", a, o>> : a \in Aliases, o \in RenameOutcomes}
    \cup {<<"i2", "a1", <<"Response", "ok">> >>}

\* Sessions and the operations on the rename shim.
NextRename ==
    \/ Continue
    \/ Idle /\ \E p \in Paths, o \in RenameOutcomes : Load(p, o)
    \/ Idle /\ \E sid \in SessionIds, c \in RenameCalls : Rename(sid, c[1], c[2], c[3])
    \/ Idle /\ \E sid \in SessionIds, c \in RenameCalls : RemoveRename(sid, c[1], c[3])
    \/ Idle /\ \E sid \in SessionIds, o \in RenameOutcomes : ListRenames(sid, o)
    \/ Idle /\ \E sid \in SessionIds, o \in {<<"ConnectError", "ok">>, <<"Response", "ok">>} :
                  CloseSession(sid, o)

SpecRename == Init /\ [][NextRename]_vars

\* --------------------------------------------- the client's lifecycle

\* The operations examples/demo.py calls inside its with-block.
DemoOps ==
    {"list_types", "list_methods", "decompile_method", "xrefs_to", "xrefs_from",
     "search_strings", "get_manifest", "list_resources"}

\* A client that is used bare or in one with-block, closed by the caller or
\* by the block's end, and called before and after.
NextScope ==
    \/ Continue
    \/ Enter
    \/ \E exc \in BlockEnds : Exit(exc)
    \/ Close
    \/ Idle /\ \E p \in Paths, o \in Outcomes : Load(p, o)
    \/ Idle /\ \E op \in DemoOps, sid \in SessionIds, o \in Outcomes :
                  Read(op, sid, "e1", o)
    \/ Idle /\ \E sid \in SessionIds, o \in Outcomes : CloseSession(sid, o)

SpecScope == Init /\ [][NextScope]_vars

\* --------------------------------------------- classification and decoding

ProbeCodes ==
    {"SESSION_NOT_FOUND", "TYPE_NOT_FOUND", "METHOD_NOT_FOUND", "FIELD_NOT_FOUND",
     "MANIFEST_UNAVAILABLE", "RESOURCE_NOT_FOUND",
     "INTERNAL_ERROR", "CONNECTION_ERROR", "NEW_CODE"}

\* Responses with an error envelope, whole or in part, under any status.
ErrorProbes ==
    [status : {200, 400, 404, 500},
     has_error : BOOLEAN,
     error : [error_code : ProbeCodes \cup {Absent},
              message : {Absent, "m1"},
              details : {Absent, "null", "d1"}],
     fields : {{}}, provenance : {{}}, renames : {EmptyTable}]

\* A set less at most one of its elements.
LessOne(S) == {S} \cup {S \ {x} : x \in S}

\* Success responses for a model: its fields and those of the provenance,
\* each less at most one.
SuccessProbes(model) ==
    [status : {200},
     has_error : {FALSE},
     error : {NoError},
     fields : LessOne(model.required \cup model.optional),
     provenance : LessOne(Provenance.required \cup Provenance.optional),
     renames : {EmptyTable}]

Probes ==
    {[op |-> op, resp |-> r] : op \in {"load", "list_types", "close_session"},
                               r \in ErrorProbes}
    \cup UNION {{[op |-> op, resp |-> r] : r \in SuccessProbes(ServerModel(op))} :
                op \in AllOps}

Pending == Foreign("pending")

InitDecode ==
    /\ InitSession
    /\ probe \in Probes
    /\ verdict = Pending

\* The probe's response reaches the operation: _handle, then model_validate.
Decode ==
    /\ verdict = Pending
    /\ verdict' = Complete(probe.op, "Response", probe.resp)
    /\ UNCHANGED <<session, probe>>

SpecDecode == InitDecode /\ [][Decode]_vars

\* ------------------------------------------------ defaults of absent fields

\* Objects for a class: all its required fields, or all but one, and any of
\* its fields with a default.
ObjectsOf(name) ==
    {r \cup o : r \in LessOne(EntityModels[name].required),
                o \in SUBSET EntityModels[name].optional}

ModelProbes ==
    UNION {{[model |-> name, fields |-> p] : p \in ObjectsOf(name)} :
           name \in DOMAIN EntityModels}

InitDefaults ==
    /\ InitSession
    /\ probe \in ModelProbes
    /\ verdict = Pending

\* The probe's object is validated as an instance of its class.
Validate ==
    /\ verdict = Pending
    /\ verdict' = validated_instance(probe.model, probe.fields)
    /\ UNCHANGED <<session, probe>>

SpecDefaults == InitDefaults /\ [][Validate]_vars

\* ------------------------------------------------------------------ claims

Called == last # NoCall

\* The exceptions of the transport and of the interpreter that the client
\* lets through, raised when no response was received.
TransportFailures == {"JadxdConnectionError", "httpx.TimeoutException", "RuntimeError"}

\* The call was on a session id that close_session had closed before, or on
\* one that load has never issued.
OnDeadSession ==
    /\ last.op \in SessionOps
    /\ last.stale \/ last.sid \notin 1..nextId

\* C1, as claimed: once close_session(s) has succeeded, and for an id that
\* load never issued, every later session-scoped operation on s raises a
\* Session error, whatever else has happened since.
C1_DeadSessionRaisesSessionError ==
    OnDeadSession => last.kind = "JadxdSessionError"

\* C1, amended: such an operation never returns a result; it raises a Session
\* error whenever the service's response is received, and otherwise the
\* transport's failure (a Connection error, a timeout, a closed client).
C1_DeadSessionNeverUsable ==
    OnDeadSession =>
        /\ last.kind # "ok"
        /\ last.transport = "Response" => last.kind = "JadxdSessionError"
        /\ last.transport # "Response" => last.kind \in TransportFailures

\* A query on a closed session raised a Session error while a session loaded
\* later was live.
C1_Witness ==
    /\ last.op \in ReadOps
    /\ last.stale
    /\ last.kind = "JadxdSessionError"
    /\ \E s \in live : s > last.sid

\* The error_code a response carries, Absent when it has no "error" object
\* or the object has no error_code.
SentCode(resp) == IF resp.has_error THEN resp.error.error_code ELSE Absent

\* The kind the protocol's table gives a code.
TableKind(code) ==
    IF code = "SESSION_NOT_FOUND" THEN "JadxdSessionError"
    ELSE IF code \in {"TYPE_NOT_FOUND", "METHOD_NOT_FOUND", "FIELD_NOT_FOUND",
                      "MANIFEST_UNAVAILABLE", "RESOURCE_NOT_FOUND"}
         THEN "JadxdNotFoundError"
    ELSE "JadxdError"

Decoded == verdict # Pending

TimedOut == last.transport \in {"ConnectTimeout", "ReadTimeout"}

\* C3: a call whose request times out raises a Connection error, and the
\* client has issued one request for it.
C3_TimeoutRaisesConnectionError ==
    TimedOut => last.kind = "JadxdConnectionError" /\ last.sent = 1

\* The payload of the probe lacks a field its operation's model requires,
\* at the top or in the provenance.
LacksRequired ==
    LET model == ResultModel(probe.op)
    IN  \/ ~(model.required \subseteq probe.resp.fields)
        \/ /\ "provenance" \in model.required
           /\ ~(Provenance.required \subseteq probe.resp.provenance)

\* C4, as claimed: whatever an operation returns from a success response is a
\* validated instance of its model.
C4_EveryResultValidated ==
    Decoded /\ is_success(probe.resp) /\ verdict.kind = "ok" =>
        verdict.value = "validated"

\* C4, amended: every operation but health and close_session raises a
\* decoding failure and returns nothing when the success payload lacks a
\* required field, and returns a validated instance otherwise; health and
\* close_session return the decoded JSON as it came.
C4_ModelledResultsValidated ==
    Decoded /\ is_success(probe.resp) =>
        IF probe.op \in RawOps
        THEN verdict.kind = "ok" /\ verdict.value = "raw"
        ELSE IF LacksRequired
             THEN verdict.kind = "pydantic.ValidationError" /\ verdict.value = "none"
             ELSE verdict.kind = "ok" /\ verdict.value = "validated"

\* load was given a payload without the provenance's backend_version and
\* raised the decoding failure.
C4_Witness ==
    /\ Decoded
    /\ probe.op = "load"
    /\ LoadResult.required \subseteq probe.resp.fields
    /\ "backend_version" \notin probe.resp.provenance
    /\ verdict.kind = "pydantic.ValidationError"

\* C5: a load that ends in a Connection error, a server-reported error or a
\* decoding failure has created no session.
C5_FailedLoadCreatesNoSession ==
    /\ last.op = "load"
    /\ last.kind \in Taxonomy \cup {"pydantic.ValidationError"}
    => ~last.changed

\* C6: a call that raises JadxdConnectionError has left the service's
\* sessions and rename tables as they were, and the class is raised only
\* when the transport could not connect, never for an error envelope.
C6_ConnectionErrorMeansUnchanged ==
    /\ last.kind = "JadxdConnectionError" =>
          /\ ~last.changed
          /\ last.transport = "ConnectError"
          /\ last.reply = "none"
    /\ last.reply = "error" => last.kind \in Taxonomy \ {"JadxdConnectionError"}

\* A rename on a live session raised JadxdConnectionError.
C6_Witness ==
    /\ last.op = "rename"
    /\ last.sid \in live
    /\ ~last.empty
    /\ last.kind = "JadxdConnectionError"

\* C7: list_renames(s) shows every id as the caller's last successful
\* rename or remove_rename on s left it: the alias of a rename, no entry
\* after a remove_rename, no entry for an id that was only renamed in
\* another session.
C7_ListRenamesShowsRenames ==
    last.op = "list_renames" /\ last.kind = "ok" =>
        \A i \in RenameIds :
            expect[last.sid][i] # Unsure => last.listed[i] = expect[last.sid][i]

\* list_renames showed i1 under the alias of its second rename and no entry
\* for i2, while another session held i1 under the first alias and i2.
C7_Witness ==
    /\ last.op = "list_renames"
    /\ last.kind = "ok"
    /\ expect[last.sid] = [i \in RenameIds |-> IF i = "i1" THEN "a2" ELSE NoAlias]
    /\ last.listed["i1"] = "a2"
    /\ \E s \in live \ {last.sid} : renames[s]["i1"] = "a1" /\ renames[s]["i2"] = "a1"

Left == scope \in {"exited", "raised"}

\* C8: the client has one transport, created at construction; it is closed
\* once the caller has called close() or the with-block has ended, normally
\* or by an exception, and it is closed for no other reason.
C8_TransportReleased ==
    /\ acquired = 1
    /\ Left => http = "closed"
    /\ explicit => http = "closed"
    /\ http = "closed" => Left \/ explicit

\* The with-block ended by an exception after a call raised in it, and the
\* transport is closed.
C8_Witness ==
    /\ scope = "raised"
    /\ ~explicit
    /\ last.kind \in Taxonomy
    /\ http = "closed"

\* C9: a call that fails raises an error of the taxonomy, and a non-success
\* response is never returned as a result.
C9_FailuresAreTyped ==
    /\ Called /\ last.kind # "ok" => last.kind \in Taxonomy
    /\ last.reply = "error" => last.kind # "ok"

\* C10: a call with an empty required identifier is rejected before any
\* request is issued.
C10_EmptyIdentifierRejected ==
    Called /\ last.empty => last.sent = 0 /\ last.kind # "ok"

\* A step in which the caller makes one call of an operation.
CallStep == last = NoCall /\ last' # NoCall

\* What a call may write: the service's state only if the operation is one of
\* `writers`, and nothing the client holds.
WritesOnly(writers) ==
    CallStep => /\ client' = client
                /\ server' # server => last'.op \in writers

\* C11 as stated: only load, close_session and rename change the service's
\* session state; a call of any other operation leaves the live sessions and
\* every rename table as they were, and no call changes what the client holds.
C11_OnlyLoadCloseRenameWrite ==
    [][WritesOnly({"load", "close_session", "rename"})]_vars

\* C11: only load, close_session, rename and remove_rename change the
\* service's session state; a call of any other operation leaves the live
\* sessions and every rename table as they were, and no call changes what
\* the client holds.
C11_OnlyWritersWrite ==
    [][WritesOnly({"load", "close_session", "rename", "remove_rename"})]_vars

\* remove_rename returned and the session's rename table is not what it was;
\* the client still holds its one open transport.
C11_Witness ==
    /\ Called
    /\ last.op = "remove_rename"
    /\ last.kind = "ok"
    /\ last.changed
    /\ http = "open" /\ acquired = 1

\* The fields of a class with a default whose annotated type is a list or a
\* dict.
OptionalCollections(name) ==
    {f \in DOMAIN FieldDefaults[name] : FieldDefaults[name][f][1] \in {"list", "dict"}}

\* C12: in the instance decoded from a payload, every optional collection
\* field that the payload lacks is an empty collection, never None.
C12_AbsentCollectionsEmpty ==
    verdict # Pending /\ verdict.kind = "ok" =>
        \A f \in OptionalCollections(probe.model) \ probe.fields :
            verdict.instance[f] \in {"[]", "{}"}

====
